---- MODULE Spec2Model ----
(***************************************************************************)
(* Model of the point-in-time store of src/pitdf.py (PointInTimeData).     *)
(*                                                                         *)
(* The table self.df is a sequence of rows.  Timestamps are the integers   *)
(* 1..MaxTime, pd.NaT is NaT, and a comparison with NaT is False as in     *)
(* pandas.  The store is built either empty or from a stored file          *)
(* (load_path); the stored tables considered are the ones that satisfy the *)
(* interval invariants I1-I3.                                              *)
(*                                                                         *)
(* utcnow_aware is the behaviour of the pandas build in                    *)
(*     pd.Timestamp.utcnow().tz_localize('UTC')                            *)
(* TRUE: utcnow() yields a tz-aware instant and tz_localize raises         *)
(* TypeError; FALSE: the expression yields the current instant.            *)
(***************************************************************************)
EXTENDS Integers, Sequences, FiniteSets, TLC

VARIABLES df, clock, call, df0, result, utcnow_aware, out

vars == <<df, clock, call, df0, result, utcnow_aware, out>>

----------------------------------------------------------------------------
(* Bounds *)

MaxTime == 3

MaxRows == 2

MaxOps == 2

MaxBatch == 2

MaxRange == 2

----------------------------------------------------------------------------
(* Values *)

NaT == 0

NaN == "NaN"

None == "None"

Times == 1..MaxTime

TimestampMax == MaxTime + 1

key_columns == <<"symbol", "source">>

value_columns == <<"price">>

default_overlap_mode == "raise"

Keys ==
  { [symbol |-> "AAPL", source |-> "vendor1"],
    [symbol |-> "AAPL", source |-> "vendor2"] }

StoredPrices == {"150"}

InputPrices == {"155"}

Symbols == {k.symbol : k \in Keys}

Sources == {k.source : k \in Keys}

OverlapModes == {"raise", "skip", "replace"}

OverlapModeArgs == OverlapModes \cup {None, "merge"}

Range(f) == {f[i] : i \in DOMAIN f}

RequiredColumns == Range(key_columns) \cup {"from_time"} \cup Range(value_columns)

----------------------------------------------------------------------------
(* pandas comparisons: anything compared with NaT / NaN is False *)

Lt(a, b) == a # NaT /\ b # NaT /\ a < b

Le(a, b) == a # NaT /\ b # NaT /\ a <= b

isna(t) == t = NaT

Eq(a, b) == a # NaN /\ b # NaN /\ a = b

RowGet(row, col, default) == IF col \in DOMAIN row THEN row[col] ELSE default

SetField(row, col, v) ==
  [c \in (DOMAIN row) \cup {col} |-> IF c = col THEN v ELSE row[c]]

KeyMask_FirstColumn(tbl, row) ==
  {i \in DOMAIN tbl : Eq(tbl[i][key_columns[1]], row[key_columns[1]])}

KeyMask(tbl, row) ==
  {i \in DOMAIN tbl : \A j \in DOMAIN key_columns :
                          Eq(tbl[i][key_columns[j]], row[key_columns[j]])}

Drop(tbl, idx) ==
  LET keep(i) == i \notin idx
      F[n \in 0..Len(tbl)] ==
        IF n = 0 THEN <<>>
        ELSE IF keep(n) THEN Append(F[n - 1], tbl[n]) ELSE F[n - 1]
  IN F[Len(tbl)]

SetToTime_AllRows(tbl, mask, t) ==
  [i \in DOMAIN tbl |-> [tbl[i] EXCEPT !.to_time = t]]

SetToTime(tbl, mask, t) ==
  [i \in DOMAIN tbl |-> IF i \in mask THEN [tbl[i] EXCEPT !.to_time = t] ELSE tbl[i]]

SetChangeTime(tbl, mask, t) ==
  [i \in DOMAIN tbl |-> IF i \in mask THEN [tbl[i] EXCEPT !.change_time = t] ELSE tbl[i]]

TruthyUnlessFalse(v) == v # "False"

Truthy(v) == v \notin {"None", "False"}

EffectiveMode(overlap_mode) ==
  IF overlap_mode = None THEN default_overlap_mode ELSE overlap_mode

----------------------------------------------------------------------------
(* Methods of PointInTimeData; each yields the table it leaves and the     *)
(* error it raises ("none" when it returns normally).                      *)

match_key_AnyInterval(tbl, row) == KeyMask(tbl, row)

match_key(tbl, row) == {i \in KeyMask(tbl, row) : isna(tbl[i].to_time)}

check_overlap(tbl, row, mode) ==
  LET from_time == row.from_time
      overlapping ==
        {i \in KeyMask(tbl, row) :
            /\ Lt(tbl[i].from_time, RowGet(row, "to_time", TimestampMax))
            /\ (isna(tbl[i].to_time) \/ Lt(from_time, tbl[i].to_time))}
  IN IF overlapping # {}
       THEN CASE mode = "raise" ->
                   [df |-> tbl, ret |-> "None", err |-> "OverlapConflict"]
              [] mode = "skip" ->
                   [df |-> tbl, ret |-> "False", err |-> "none"]
              [] mode = "replace" ->
                   [df |-> Drop(tbl, overlapping), ret |-> "None", err |-> "none"]
              [] OTHER ->
                   [df |-> tbl, ret |-> "None", err |-> "InvalidConfiguration"]
       ELSE [df |-> tbl, ret |-> "None", err |-> "none"]

add(tbl, row0, overlap_mode, now, aware) ==
  LET mode == EffectiveMode(overlap_mode)
      row == SetField(SetField(row0, "to_time", NaT), "change_time", now)
      chk == check_overlap(tbl, row, mode)
  IN IF aware THEN [df |-> tbl, err |-> "TypeError"]
     ELSE IF chk.err # "none" THEN [df |-> chk.df, err |-> chk.err]
     ELSE IF ~Truthy(chk.ret) THEN [df |-> chk.df, err |-> "none"]
     ELSE [df |-> Append(chk.df, row), err |-> "none"]

upsert_CloseAfterAdd(tbl, row, overlap_mode, now, aware) ==
  LET mode == EffectiveMode(overlap_mode)
      from_time == row.from_time
      added == add(tbl, row, mode, now, aware)
      mask == match_key(tbl, row)
  IN IF added.err # "none" \/ mask = {} THEN added
     ELSE [df |-> SetToTime(added.df, mask, from_time), err |-> "none"]

upsert_CheckFirst(tbl, row, overlap_mode, now, aware) ==
  LET mode == EffectiveMode(overlap_mode)
      from_time == row.from_time
      mask == match_key(tbl, row)
      others == {i \in KeyMask(tbl, row) \ mask : Lt(from_time, tbl[i].to_time)}
      closed == IF mask # {} /\ others = {} THEN SetToTime(tbl, mask, from_time)
                ELSE tbl
  IN add(closed, row, mode, now, aware)

upsert(tbl, row, overlap_mode, now, aware) ==
  LET mode == EffectiveMode(overlap_mode)
      from_time == row.from_time
      mask == match_key(tbl, row)
      closed == IF mask # {} THEN SetToTime(tbl, mask, from_time) ELSE tbl
  IN add(closed, row, mode, now, aware)

RECURSIVE upsert_each(_, _, _, _, _)
upsert_each(tbl, rows, mode, now, aware) ==
  IF rows = <<>> THEN [df |-> tbl, err |-> "none"]
  ELSE LET r == upsert(tbl, Head(rows), mode, now, aware)
       IN IF r.err # "none" THEN r
          ELSE upsert_each(r.df, Tail(rows), mode, now, aware)

batch_upsert_Atomic(tbl, records, overlap_mode, now, aware) ==
  LET mode == EffectiveMode(overlap_mode)
      columns == UNION {DOMAIN records[i] : i \in DOMAIN records}
      df_in == [i \in DOMAIN records |->
                  [c \in columns |->
                     IF c \in DOMAIN records[i] THEN records[i][c]
                     ELSE IF c = "from_time" THEN NaT ELSE NaN]]
      applied == upsert_each(tbl, df_in, mode, now, aware)
  IN IF RequiredColumns \ columns # {} THEN [df |-> tbl, err |-> "MissingFields"]
     ELSE IF applied.err # "none" THEN [df |-> tbl, err |-> applied.err]
     ELSE applied

batch_upsert(tbl, records, overlap_mode, now, aware) ==
  LET mode == EffectiveMode(overlap_mode)
      columns == UNION {DOMAIN records[i] : i \in DOMAIN records}
      missing_cols == RequiredColumns \ columns
      df_in == [i \in DOMAIN records |->
                  [c \in columns |->
                     IF c \in DOMAIN records[i] THEN records[i][c]
                     ELSE IF c = "from_time" THEN NaT ELSE NaN]]
  IN IF missing_cols # {} THEN [df |-> tbl, err |-> "MissingFields"]
     ELSE upsert_each(tbl, df_in, mode, now, aware)

delete_AnyInterval(tbl, key_dict, delete_time, now, aware) ==
  LET mask == {i \in DOMAIN tbl :
                 \A k \in DOMAIN key_dict : Eq(tbl[i][k], key_dict[k])}
      closed == SetToTime(tbl, mask, delete_time)
  IN IF mask = {} THEN [df |-> tbl, err |-> "none"]
     ELSE IF aware THEN [df |-> closed, err |-> "TypeError"]
     ELSE [df |-> SetChangeTime(closed, mask, now), err |-> "none"]

delete(tbl, key_dict, delete_time, now, aware) ==
  LET mask == {i \in DOMAIN tbl :
                 /\ \A k \in DOMAIN key_dict : Eq(tbl[i][k], key_dict[k])
                 /\ isna(tbl[i].to_time)}
      closed == SetToTime(tbl, mask, delete_time)
  IN IF mask = {} THEN [df |-> tbl, err |-> "none"]
     ELSE IF aware THEN [df |-> closed, err |-> "TypeError"]
     ELSE [df |-> SetChangeTime(closed, mask, now), err |-> "none"]

get_active(tbl, timestamp) ==
  SelectSeq(tbl, LAMBDA r :
     Le(r.from_time, timestamp) /\ (isna(r.to_time) \/ Lt(timestamp, r.to_time)))

latest(tbl) == SelectSeq(tbl, LAMBDA r : isna(r.to_time))

RECURSIVE InsertByFromTime(_, _)
InsertByFromTime(r, s) ==
  IF s = <<>> THEN <<r>>
  ELSE IF Head(s).from_time <= r.from_time
         THEN <<Head(s)>> \o InsertByFromTime(r, Tail(s))
         ELSE <<r>> \o s

RECURSIVE SortByFromTime(_)
SortByFromTime(s) ==
  IF s = <<>> THEN <<>>
  ELSE InsertByFromTime(s[Len(s)], SortByFromTime(SubSeq(s, 1, Len(s) - 1)))

\* string order of the key values, for sort_values(key_columns + ["from_time"])
Alphabetical == <<"AAPL", "MSFT", "vendor1", "vendor2">>

StrRank(v) == CHOOSE i \in DOMAIN Alphabetical : Alphabetical[i] = v

RowBefore(a, b) ==
  \/ StrRank(a.symbol) < StrRank(b.symbol)
  \/ a.symbol = b.symbol /\ StrRank(a.source) < StrRank(b.source)
  \/ a.symbol = b.symbol /\ a.source = b.source /\ a.from_time < b.from_time

RECURSIVE InsertByKey(_, _)
InsertByKey(r, s) ==
  IF s = <<>> THEN <<r>>
  ELSE IF ~RowBefore(r, Head(s))
         THEN <<Head(s)>> \o InsertByKey(r, Tail(s))
         ELSE <<r>> \o s

RECURSIVE SortByKey(_)
SortByKey(s) ==
  IF s = <<>> THEN <<>>
  ELSE InsertByKey(s[Len(s)], SortByKey(SubSeq(s, 1, Len(s) - 1)))

\* rows that compare equal are kept in table order; no key_filter (None) is
\* the empty dict, both are falsy in `if key_filter:`
full_history(tbl, key_filter) ==
  IF DOMAIN key_filter # {}
    THEN SortByFromTime(SelectSeq(tbl, LAMBDA r :
           \A k \in DOMAIN key_filter : Eq(r[k], key_filter[k])))
    ELSE SortByKey(tbl)

Tag(rows, ts) == [i \in DOMAIN rows |-> SetField(rows[i], "snapshot_time", ts)]

RECURSIVE Concat(_)
Concat(frames) == IF frames = <<>> THEN <<>> ELSE Head(frames) \o Concat(Tail(frames))

snapshot_FirstTag(tbl, date_range) ==
  LET snapshots == [i \in DOMAIN date_range |->
                      Tag(get_active(tbl, date_range[i]), date_range[1])]
  IN IF snapshots = <<>> THEN [out |-> <<>>, err |-> "ValueError"]
     ELSE [out |-> Concat(snapshots), err |-> "none"]

\* pd.concat of an empty list raises ValueError
snapshot(tbl, date_range) ==
  LET snapshots == [i \in DOMAIN date_range |->
                      Tag(get_active(tbl, date_range[i]), date_range[i])]
  IN IF snapshots = <<>> THEN [out |-> <<>>, err |-> "ValueError"]
     ELSE [out |-> Concat(snapshots), err |-> "none"]

----------------------------------------------------------------------------
(* Construction *)

SameKey(a, b) == \A j \in DOMAIN key_columns : a[key_columns[j]] = b[key_columns[j]]

End(r) == IF isna(r.to_time) THEN TimestampMax ELSE r.to_time

Intersect(a, b) == a.from_time < End(b) /\ b.from_time < End(a)

StoredRows ==
  { [symbol |-> k.symbol, source |-> k.source, from_time |-> f, to_time |-> t,
     change_time |-> NaT, price |-> p] :
       k \in Keys, f \in Times, t \in Times \cup {NaT}, p \in StoredPrices }

WellFormed(tbl) ==
  /\ \A i \in DOMAIN tbl : isna(tbl[i].to_time) \/ tbl[i].from_time < tbl[i].to_time
  /\ \A i, j \in DOMAIN tbl : i # j /\ SameKey(tbl[i], tbl[j]) => ~Intersect(tbl[i], tbl[j])

StoredTables ==
  {tbl \in UNION {[1..n -> StoredRows] : n \in 0..MaxRows} : WellFormed(tbl)}

InputRows ==
  { [symbol |-> k.symbol, source |-> k.source, from_time |-> f, price |-> p] :
       k \in Keys, f \in Times, p \in InputPrices }

KeyDicts ==
  {<<>>} \cup {[symbol |-> s] : s \in Symbols} \cup {[source |-> c] : c \in Sources}
         \cup {[symbol |-> s, source |-> c] : s \in Symbols, c \in Sources}

BatchRecords == {row \in InputRows : row.from_time \in {1, MaxTime}}

BatchInputs == UNION {[1..n -> BatchRecords] : n \in 1..MaxBatch}

Init ==
  /\ df \in StoredTables
  /\ utcnow_aware \in BOOLEAN
  /\ clock = 0
  /\ call = [op |-> "init", arg |-> <<>>, mode |-> None, at |-> NaT]
  /\ df0 = df
  /\ result = "init"
  /\ out = <<>>

Finish(r, c) ==
  /\ df' = r.df
  /\ df0' = df
  /\ result' = IF r.err = "none" THEN "ok" ELSE r.err
  /\ call' = c
  /\ clock' = clock + 1
  /\ out' = <<>>
  /\ UNCHANGED utcnow_aware

Add ==
  /\ clock < MaxOps
  /\ \E row \in InputRows, m \in OverlapModeArgs :
       Finish(add(df, row, m, clock + 1, utcnow_aware),
              [op |-> "add", arg |-> row, mode |-> EffectiveMode(m), at |-> row.from_time])

Upsert ==
  /\ clock < MaxOps
  /\ \E row \in InputRows, m \in OverlapModeArgs :
       Finish(upsert(df, row, m, clock + 1, utcnow_aware),
              [op |-> "upsert", arg |-> row, mode |-> EffectiveMode(m), at |-> row.from_time])

BatchUpsert ==
  /\ clock < MaxOps
  /\ \E records \in BatchInputs :
       Finish(batch_upsert(df, records, None, clock + 1, utcnow_aware),
              [op |-> "batch_upsert", arg |-> records, mode |-> EffectiveMode(None), at |-> NaT])

Delete ==
  /\ clock < MaxOps
  /\ \E key_dict \in KeyDicts, delete_time \in Times :
       Finish(delete(df, key_dict, delete_time, clock + 1, utcnow_aware),
              [op |-> "delete", arg |-> key_dict, mode |-> None, at |-> delete_time])

Next == Add \/ Upsert \/ BatchUpsert \/ Delete

Spec == Init /\ [][Next]_vars

----------------------------------------------------------------------------
(* Batches whose records may lack a column that another record supplies *)

PartialRecords ==
  { [symbol |-> "AAPL", source |-> "vendor1", from_time |-> MaxTime],
    [symbol |-> "AAPL", source |-> "vendor2", price |-> "155"],
    [symbol |-> "AAPL", from_time |-> MaxTime, price |-> "155"] }

BatchInputsAny ==
  UNION {[1..n -> BatchRecords \cup PartialRecords] : n \in 1..MaxBatch}

BatchUpsertAny ==
  /\ clock < MaxOps
  /\ \E records \in BatchInputsAny, m \in {None, "skip"} :
       Finish(batch_upsert(df, records, m, clock + 1, utcnow_aware),
              [op |-> "batch_upsert", arg |-> records, mode |-> EffectiveMode(m), at |-> NaT])

NextBatch == BatchUpsertAny

SpecBatch == Init /\ [][NextBatch]_vars

----------------------------------------------------------------------------
(* Queries: the table is only read *)

DateRanges == UNION {[1..n -> Times] : n \in 0..MaxRange}

Answer(o, err, c) ==
  /\ out' = o
  /\ result' = IF err = "none" THEN "ok" ELSE err
  /\ call' = c
  /\ df0' = df
  /\ UNCHANGED <<df, clock, utcnow_aware>>

GetActive_InPlace ==
  \E timestamp \in Times :
    /\ out' = get_active(df, timestamp)
    /\ df' = get_active(df, timestamp)
    /\ result' = "ok"
    /\ call' = [op |-> "get_active", arg |-> <<>>, mode |-> None, at |-> timestamp]
    /\ df0' = df
    /\ UNCHANGED <<clock, utcnow_aware>>

GetActive ==
  \E timestamp \in Times :
    Answer(get_active(df, timestamp), "none",
           [op |-> "get_active", arg |-> <<>>, mode |-> None, at |-> timestamp])

Latest ==
  Answer(latest(df), "none", [op |-> "latest", arg |-> <<>>, mode |-> None, at |-> NaT])

FullHistory ==
  \E key_filter \in KeyDicts :
    Answer(full_history(df, key_filter), "none",
           [op |-> "full_history", arg |-> key_filter, mode |-> None, at |-> NaT])

Snapshot ==
  \E date_range \in DateRanges :
    LET r == snapshot(df, date_range)
    IN Answer(r.out, r.err,
              [op |-> "snapshot", arg |-> date_range, mode |-> None, at |-> NaT])

NextQuery == Delete \/ GetActive \/ Latest \/ FullHistory \/ Snapshot

SpecQuery == Init /\ [][NextQuery]_vars

----------------------------------------------------------------------------
(* Vocabulary of the properties *)

IsOpen(r) == r.to_time = NaT

HasKey(r, row) == r.symbol = row.symbol /\ r.source = row.source

\* the existing record r intersects the candidate interval [from_time, +infinity)
OverlapsCandidate(r, row) ==
  HasKey(r, row) /\ (IsOpen(r) \/ r.to_time > row.from_time)

Conflict(tbl, row) == \E i \in DOMAIN tbl : OverlapsCandidate(tbl[i], row)

IsWrite == call.op \in {"add", "upsert"}

----------------------------------------------------------------------------
\* C1: after any sequence of add, upsert, batch_upsert and delete calls, no
\* two records of the same key have intersecting intervals [from_time,
\* to_time) (an open to_time counting as +infinity), and get_active(t) holds
\* at most one record per key at every instant t.
C1_NoOverlap ==
  /\ \A i, j \in DOMAIN df :
        i # j /\ SameKey(df[i], df[j]) => ~Intersect(df[i], df[j])
  /\ \A t \in 1..TimestampMax :
        LET act == get_active(df, t)
        IN \A i, j \in DOMAIN act : i # j => ~SameKey(act[i], act[j])

\* an upsert has closed the active record of a key that has an earlier version
C1_Witness ==
  /\ call.op = "upsert"
  /\ df # df0
  /\ \E i, j \in DOMAIN df :
        /\ i # j
        /\ HasKey(df[i], call.arg) /\ HasKey(df[j], call.arg)
        /\ IsOpen(df0[i]) /\ df[i].to_time = call.at
        /\ df[j].to_time = df[i].from_time

\* C2: after any sequence of add, upsert, batch_upsert and delete calls, every
\* key has at most one record with an open to_time, so latest() holds at most
\* one row per key.
C2_AtMostOneOpen ==
  /\ \A i, j \in DOMAIN df :
        i # j /\ SameKey(df[i], df[j]) /\ IsOpen(df[i]) => ~IsOpen(df[j])
  /\ LET cur == latest(df)
     IN \A i, j \in DOMAIN cur : i # j => ~SameKey(cur[i], cur[j])

\* an add on a key that has an active record has returned, the key still has
\* its one open record
C2_Witness ==
  /\ call.op = "add"
  /\ result = "ok"
  /\ \E i \in DOMAIN df : HasKey(df[i], call.arg) /\ IsOpen(df[i])

\* C3: after every mutation every record whose to_time is not open has
\* from_time < to_time.
C3_MonotonicIntervals ==
  \A i \in DOMAIN df : ~IsOpen(df[i]) => df[i].from_time < df[i].to_time

\* C4: an add in a valid mode whose candidate overlaps no record of its key
\* appends exactly one open record with the given key, values and from_time,
\* changes no other record, and get_active(t) holds the new record exactly
\* for t >= from_time.
C4_AddAccepts ==
  (call.op = "add" /\ call.mode \in OverlapModes /\ ~Conflict(df0, call.arg)) =>
     /\ Len(df) = Len(df0) + 1
     /\ SubSeq(df, 1, Len(df0)) = df0
     /\ LET new == df[Len(df)]
        IN /\ HasKey(new, call.arg)
           /\ new.price = call.arg.price
           /\ new.from_time = call.arg.from_time
           /\ IsOpen(new)
           /\ \A t \in Times :
                 (t >= new.from_time) <=> (new \in Range(get_active(df, t)))

\* C5: if key K has an active record R with from_time = t0, an upsert on K
\* with from_time = t1 > t0 leaves R with to_time = t1, in every mode and
\* whether the call returns or raises.
C5_UpsertClosesPredecessor ==
  call.op = "upsert" =>
    \A i \in DOMAIN df0 :
      (HasKey(df0[i], call.arg) /\ IsOpen(df0[i]) /\ df0[i].from_time < call.at) =>
         \E j \in DOMAIN df : df[j] = [df0[i] EXCEPT !.to_time = call.at]

\* an upsert at t1 in skip mode has inserted nothing and has closed the
\* active record from t0 < t1
C5_Witness ==
  /\ call.op = "upsert"
  /\ call.mode = "skip"
  /\ Len(df) = Len(df0)
  /\ \E i \in DOMAIN df0 :
        /\ HasKey(df0[i], call.arg) /\ IsOpen(df0[i]) /\ df0[i].from_time < call.at
        /\ df[i].to_time = call.at


\* C6: for a key K that starts with no records and is written by add at t0
\* (then by upserts at increasing from_time), get_active(t) holds for K
\* exactly the version with the greatest from_time <= t, and nothing for
\* t < t0.  Stated for the first write of the chain, the add at t0.
C6_AsOfChain ==
  (/\ call.op = "add"
   /\ call.mode \in OverlapModes
   /\ \A i \in DOMAIN df0 : ~HasKey(df0[i], call.arg)) =>
     \A t \in Times :
       LET act == SelectSeq(get_active(df, t), LAMBDA r : HasKey(r, call.arg))
       IN IF t < call.at THEN act = <<>>
          ELSE /\ Len(act) = 1
               /\ act[1].from_time = call.at
               /\ act[1].price = call.arg.price

\* the candidate of an upsert is tested after the active record was closed
ConflictAtCheck(tbl, row) ==
  IF call.op = "upsert"
    THEN \E i \in DOMAIN tbl :
           HasKey(tbl[i], row) /\ ~IsOpen(tbl[i]) /\ tbl[i].to_time > row.from_time
    ELSE Conflict(tbl, row)

C8_ReplaceEvictsThenInserts ==
  (call.op = "add" /\ call.mode = "replace" /\ Conflict(df0, call.arg)) =>
     LET K == [symbol |-> call.arg.symbol, source |-> call.arg.source]
         hist == Range(full_history(df, K))
     IN /\ \A i \in DOMAIN df0 : OverlapsCandidate(df0[i], call.arg) => df0[i] \notin hist
        /\ \E r \in hist :
              r.from_time = call.at /\ r.price = call.arg.price /\ IsOpen(r)

\* C9: every add or upsert given a mode outside {raise, skip, replace} fails
\* with InvalidConfiguration and leaves the table as it was.
C9_InvalidModeRejected ==
  (IsWrite /\ call.mode \notin OverlapModes) =>
     (result = "InvalidConfiguration" /\ df = df0)

\* C10: add in skip mode on a key with a record overlapping [from_time,
\* +infinity) returns without an error and leaves the table as it was.
C10_SkipIsSilent ==
  (call.op = "add" /\ call.mode = "skip" /\ Conflict(df0, call.arg)) =>
     (result = "ok" /\ df = df0)

----------------------------------------------------------------------------
IsComplete(record) == RequiredColumns \subseteq DOMAIN record

\* C11: if any single record of a batch lacks a key field, from_time or a
\* value field (even when other records of the batch supply it), batch_upsert
\* fails with MissingFields and the table is as it was before the call.
C11_BatchValidatesEachRecord ==
  (call.op = "batch_upsert" /\ \E i \in DOMAIN call.arg : ~IsComplete(call.arg[i])) =>
     (result = "MissingFields" /\ df = df0)

----------------------------------------------------------------------------
IsFullKey(key_dict) == DOMAIN key_dict = Range(key_columns)

Matches(r, key_dict) == \A k \in DOMAIN key_dict : r[k] = key_dict[k]

\* the last call was delete(K, d) for a full key K that had an active record
DeletedActive ==
  /\ call.op = "delete"
  /\ IsFullKey(call.arg)
  /\ \E i \in DOMAIN df0 : Matches(df0[i], call.arg) /\ IsOpen(df0[i])

DeleteEffect ==
  /\ \A i \in DOMAIN df0 :
        Matches(df0[i], call.arg) /\ IsOpen(df0[i]) =>
           \E j \in DOMAIN df :
              /\ Matches(df[j], call.arg)
              /\ df[j].from_time = df0[i].from_time
              /\ df[j].to_time = call.at
  /\ \A r \in Range(latest(df)) : ~Matches(r, call.arg)
  /\ \A t \in Times :
        t >= call.at => \A r \in Range(get_active(df, t)) : ~Matches(r, call.arg)

\* C12: if key K has an active record, then after delete(K, d) that record
\* has to_time = d, latest() holds no record of K, and get_active(t) holds no
\* record of K for every t >= d.
C12_DeleteClosesActive == DeletedActive => DeleteEffect

\* C13: if no record matching the key has an open to_time, delete(key, d)
\* returns without error and leaves every row unchanged, to_time and
\* change_time of the closed records of the key included.
C13_DeleteWithoutActiveIsNoOp ==
  (call.op = "delete" /\ \A i \in DOMAIN df0 : Matches(df0[i], call.arg) => ~IsOpen(df0[i])) =>
     (result = "ok" /\ df = df0)

\* a delete on a key whose only records are closed has returned
C13_Witness ==
  /\ call.op = "delete"
  /\ IsFullKey(call.arg)
  /\ result = "ok"
  /\ \E i \in DOMAIN df0 : Matches(df0[i], call.arg)
  /\ \A i \in DOMAIN df0 : Matches(df0[i], call.arg) => ~IsOpen(df0[i])

----------------------------------------------------------------------------
\* get_active(t) with every record tagged with t
TaggedActive(tbl, t) ==
  LET act == get_active(tbl, t)
  IN [i \in DOMAIN act |->
        [c \in DOMAIN act[i] \cup {"snapshot_time"} |->
           IF c = "snapshot_time" THEN t ELSE act[i][c]]]

RECURSIVE PerTimestamp(_, _)
PerTimestamp(tbl, instants) ==
  IF instants = <<>> THEN <<>>
  ELSE PerTimestamp(tbl, SubSeq(instants, 1, Len(instants) - 1))
         \o TaggedActive(tbl, instants[Len(instants)])

SnapshotIsPerTimestamp ==
  /\ result = "ok"
  /\ out = PerTimestamp(df0, call.arg)
  /\ df = df0

\* C14 as claimed: for any list of instants [t1, ..., tn], snapshot returns
\* the concatenation in list order of get_active(ti) tagged with ti, and the
\* table is not changed.
C14_SnapshotAnyList == call.op = "snapshot" => SnapshotIsPerTimestamp

\* C14 as amended: the same for any list of at least one instant; snapshot
\* of the empty list raises ValueError.
C14_SnapshotNonEmptyList ==
  call.op = "snapshot" =>
     IF call.arg = <<>> THEN result = "ValueError" /\ df = df0
     ELSE SnapshotIsPerTimestamp

\* a snapshot of two different instants has returned rows for both
C14_Witness ==
  /\ call.op = "snapshot"
  /\ Len(call.arg) = 2
  /\ call.arg[1] # call.arg[2]
  /\ \E i, j \in DOMAIN out :
        out[i].snapshot_time = call.arg[1] /\ out[j].snapshot_time = call.arg[2]

QueryOps == {"get_active", "latest", "full_history", "snapshot"}

\* C15: get_active, latest, full_history and snapshot leave every row of the
\* table unchanged, and two get_active(t) calls with no mutation between them
\* return identical results.
C15_QueriesArePureReads ==
  [][ /\ call'.op \in QueryOps => df' = df
      /\ (call.op = "get_active" /\ call'.op = "get_active" /\ call'.at = call.at)
            => out' = out ]_vars

\* get_active has answered with a record after a delete closed one
C15_Witness ==
  /\ call.op = "get_active"
  /\ clock > 0
  /\ out # <<>>
  /\ \E i \in DOMAIN df : df[i].to_time # NaT /\ df[i].change_time # NaT

----------------------------------------------------------------------------
\* the last call wrote a field of the row at position i
Written(i) == i \in DOMAIN df0 /\ i \in DOMAIN df /\ df[i] # df0[i]

\* C16: with the clock advanced on each operation, a record's change_time
\* equals the clock value of the most recent operation that wrote a field of
\* the row, the upsert that closes it by setting its to_time included.
C16_ChangeTimeTracksMutation ==
  (Len(df) = Len(df0) /\ call.op \in {"add", "upsert", "batch_upsert", "delete"}) =>
     \A i \in DOMAIN df : Written(i) => df[i].change_time = clock

----------------------------------------------------------------------------
\* new is old, or old closed: same key, values and from_time, and a to_time
\* that is the same or went from open to a concrete instant
SameOrClosed(old, new) ==
  /\ HasKey(new, old)
  /\ new.price = old.price
  /\ new.from_time = old.from_time
  /\ (new.to_time = old.to_time \/ (IsOpen(old) /\ ~IsOpen(new)))

\* C17: in every step an existing record keeps its key, values and
\* from_time; its to_time changes only from open to a concrete instant (a
\* closed record is never rewritten or reopened); and a record is removed
\* from the table only by an add or upsert running in replace mode.
C17_RecordsOnlyClose ==
  IF Len(df) >= Len(df0)
    THEN \A i \in DOMAIN df0 : SameOrClosed(df0[i], df[i])
    ELSE IsWrite /\ call.mode = "replace"

\* a call has closed the open record of a key that also has a closed record
C17_Witness ==
  /\ call.op \in {"upsert", "delete"}
  /\ Len(df) = Len(df0)
  /\ \E i, j \in DOMAIN df0 :
        /\ HasKey(df0[i], df0[j])
        /\ IsOpen(df0[i]) /\ ~IsOpen(df[i])
        /\ ~IsOpen(df0[j]) /\ df[j] = df0[j]

\* the upsert just made was in skip mode, on a key with the active record at
\* position i, and its candidate interval [from_time, +infinity) intersects
\* the closed interval of the same key at position j
SkipUpsertOverOther(i, j) ==
  /\ call.op = "upsert"
  /\ call.mode = "skip"
  /\ i \in DOMAIN df0 /\ j \in DOMAIN df0
  /\ HasKey(df0[i], call.arg) /\ IsOpen(df0[i])
  /\ HasKey(df0[j], call.arg) /\ ~IsOpen(df0[j]) /\ df0[j].to_time > call.at

Orphaned(i) ==
  /\ Len(df) = Len(df0)
  /\ df[i].to_time = call.at
  /\ \A k \in DOMAIN df : HasKey(df[k], call.arg) => ~IsOpen(df[k])

\* C18: a single upsert in skip mode on a key K that has an active record,
\* with a candidate interval that overlaps another existing interval of K,
\* closes the active record and inserts nothing, so that K is left with no
\* open record although no delete was issued.
C18_SkipUpsertOrphansKey ==
  \A i, j \in DOMAIN df0 : SkipUpsertOverOther(i, j) => Orphaned(i)

\* such an upsert was the first call made on the table, and K has no open
\* record
C18_Witness ==
  /\ clock = 1
  /\ \E i, j \in DOMAIN df0 : SkipUpsertOverOther(i, j) /\ Orphaned(i)

\* upsert(r1), ..., upsert(rn) one after another, stopping at the first one
\* that raises
SequentialUpsert(tbl, records, mode, now, aware) ==
  LET F[n \in 0..Len(records)] ==
        IF n = 0 THEN [df |-> tbl, err |-> "none"]
        ELSE IF F[n - 1].err # "none" THEN F[n - 1]
        ELSE upsert(F[n - 1].df, records[n], mode, now, aware)
  IN F[Len(records)]

\* C19: for a batch [r1, ..., rn] in which every record supplies all
\* required fields, batch_upsert leaves the table that upsert(r1), ...,
\* upsert(rn) called one after another with the same mode leave; if
\* upsert(ri) raises, what the calls up to it wrote stays in the table and
\* r(i+1), ..., rn are not applied.
C19_BatchIsSequentialUpsert ==
  (call.op = "batch_upsert" /\ \A i \in DOMAIN call.arg : IsComplete(call.arg[i])) =>
     LET seq == SequentialUpsert(df0, call.arg, call.mode, clock, utcnow_aware)
     IN /\ df = seq.df
        /\ result = IF seq.err = "none" THEN "ok" ELSE seq.err

\* a batch of two records has raised on its first record after closing that
\* record's predecessor, and the active record of the second is still open
C19_Witness ==
  /\ call.op = "batch_upsert"
  /\ Len(call.arg) = 2
  /\ \A i \in DOMAIN call.arg : IsComplete(call.arg[i])
  /\ ~HasKey(call.arg[1], call.arg[2])
  /\ result = "TypeError"
  /\ Len(df) = Len(df0)
  /\ \E i, j \in DOMAIN df0 :
        /\ HasKey(df0[i], call.arg[1]) /\ IsOpen(df0[i])
        /\ df[i].to_time = call.arg[1].from_time
        /\ HasKey(df0[j], call.arg[2]) /\ IsOpen(df0[j]) /\ df[j] = df0[j]

\* the records of tbl whose key differs from that of row in a key field
OtherKeys(tbl, row) == SelectSeq(tbl, LAMBDA r : ~HasKey(r, row))

OnOneKey ==
  \/ call.op \in {"add", "upsert"}
  \/ call.op = "delete" /\ IsFullKey(call.arg)

\* C20: an add or upsert for key K in any mode, and a delete given the full
\* key K, leave every record whose key differs from K in at least one key
\* field unchanged and present.
C20_PerKeyIndependence ==
  OnOneKey => OtherKeys(df, call.arg) = OtherKeys(df0, call.arg)

\* an upsert or a delete has closed the active record of K while another key
\* has an active record
C20_Witness ==
  /\ OnOneKey
  /\ call.op # "add"
  /\ df # df0
  /\ \E i \in DOMAIN df0 : ~HasKey(df0[i], call.arg) /\ IsOpen(df0[i])

====
